---- MODULE Spec2Model ----
(***************************************************************************)
(* Request lifecycle and agent cache of the NYT Research Assistant         *)
(* (src/search.py; src/unnamed/part_000 is the same script without the     *)
(* help guide).                                                            *)
(*                                                                         *)
(* The script is a Streamlit program: the whole file is executed from the  *)
(* top on every user interaction and after every st.rerun() (one           *)
(* "re-execution pass").  The passes of one session are serialized by the  *)
(* script runner; st.session_state, the st.cache_resource cache and        *)
(* os.environ survive between passes.  st.rerun() and st.stop() leave the  *)
(* script through control-flow exceptions that `except Exception` does not *)
(* catch and that `finally` sees.                                          *)
(*                                                                         *)
(* A pass is one action, from line 1 of the script to the point where the  *)
(* script ends, stops, asks for a rerun or blocks in research_agent.run.   *)
(* The blocking call is completed by AgentReturns or AgentRaises, which    *)
(* run the rest of the pass.  The widget values a pass reads (API key,     *)
(* link count, clear button, chat input) are its inputs: the user may have *)
(* touched any widget before any pass, except that a chat input rendered   *)
(* with disabled=True yields nothing.                                      *)
(*                                                                         *)
(* Spec follows conversations (API key edits, Clear, submissions, runs)    *)
(* under one link count; SpecCache follows the agent cache under edits of  *)
(* both settings.  Both use the same Pass.                                 *)
(*                                                                         *)
(* Strings are sequences of tokens, so that strip(), f-string formatting   *)
(* and substring tests are computed.  Python values that are not           *)
(* necessarily strings are tagged records (Str, PyNone).                   *)
(***************************************************************************)
EXTENDS Integers, Sequences, FiniteSets, TLC

VARIABLES
    apikey,         \* st.session_state.apikey
    link_count,     \* st.session_state.link_count
    conversation,   \* st.session_state.conversation
    loading,        \* st.session_state.loading
    processing,     \* st.session_state.processing
    cache,          \* keys stored by st.cache_resource for create_research_agent
    environ,        \* os.environ["GOOGLE_API_KEY"]
    pc,             \* "idle": no pass running; "rerun": st.rerun() requested;
                    \* "running": the pass is blocked in research_agent.run
    latest_query,   \* local variable of the processing block
    \* history variables (observers, never read by the program)
    ev,             \* what the last step did
    runs,           \* arguments of the research_agent.run invocations so far
    accepted,       \* texts of the User entries appended by submissions
    dropped,        \* processing passes that failed reading the latest query
    builds,         \* successful executions of the create_research_agent body
    seen            \* keys for which create_research_agent returned a handle

vars == <<apikey, link_count, conversation, loading, processing, cache,
          environ, pc, latest_query, ev, runs, accepted, dropped, builds, seen>>

(***************************************************************************)
(* Bounds of the model.                                                    *)
(***************************************************************************)
MaxLen == 1         \* longest chat input, in tokens
NumKeys == 2        \* distinct non-empty credentials the user may type
MaxPasses == 1      \* processing passes after which no submission is offered

(***************************************************************************)
(* Program constants.                                                      *)
(***************************************************************************)
DefaultLinks == 10
MinLinks == 1
MaxLinks == 50

(***************************************************************************)
(* Python values.                                                          *)
(***************************************************************************)
Str(s) == [t |-> "str", v |-> s]
PyNone == [t |-> "NoneType", v |-> <<>>]

\* bool(x) for x a str or None
Truthy(x) == x.t = "str" /\ x.v # <<>>

IsSpace(c) == c = " "

RECURSIVE LStrip(_)
LStrip(s) == IF s = <<>> THEN s
             ELSE IF IsSpace(Head(s)) THEN LStrip(Tail(s)) ELSE s

RECURSIVE RStrip(_)
RStrip(s) == IF s = <<>> THEN s
             ELSE IF IsSpace(s[Len(s)]) THEN RStrip(SubSeq(s, 1, Len(s) - 1)) ELSE s

\* str.strip()
Strip(s) == RStrip(LStrip(s))

\* sub in s
Contains(s, sub) ==
    \E i \in 1..(Len(s) + 1) :
        /\ i + Len(sub) - 1 <= Len(s)
        /\ SubSeq(s, i, i + Len(sub) - 1) = sub

(***************************************************************************)
(* Inputs.                                                                 *)
(***************************************************************************)
Chars == {"a", " "}

TextsUpTo(n) == UNION {[1..k -> Chars] : k \in 0..n}

\* what st.chat_input may return: None, or the submitted string
ChatInputs == {PyNone} \cup {Str(s) : s \in TextsUpTo(MaxLen)}

\* what the API key text_input may return ("" is the session default)
Credential(i) == [j \in 1..i |-> "k"]
Credentials == {Credential(i) : i \in 0..NumKeys}

\* what the number_input may return (of MinLinks..MaxLinks)
Limits == {MinLinks, DefaultLinks}

\* the shapes research_agent.run may return: a dict (with or without a
\* "content" key), an object with a content attribute, anything else
Response(isdict, has, content, repr) ==
    [isdict |-> isdict, has |-> has, content |-> content, repr |-> repr]

Article == <<"Article text...">>
Responses ==
    { Response(TRUE, TRUE, Str(Article), <<"{...}">>),
      Response(FALSE, TRUE, Str(Article), <<"RunResponse(...)">>),
      Response(FALSE, FALSE, PyNone, <<"plain">>) }

\* every shape: also an empty or None content, a dict without the key
ResponseShapes ==
    Responses \cup
    { Response(TRUE, TRUE, Str(<<>>), <<"{...}">>),
      Response(TRUE, TRUE, PyNone, <<"{...}">>),
      Response(TRUE, FALSE, PyNone, <<"{}">>),
      Response(FALSE, TRUE, PyNone, <<"RunResponse(...)">>) }

\* str(e) of the exceptions research_agent.run may raise
Errors == {<<"timeout">>}

\* str(e) of the IndexError of [][-1]
IndexErrorText == <<"list index out of range">>

(***************************************************************************)
(* Pieces of the script.                                                   *)
(***************************************************************************)
NoContent == <<"No content available.">>
ErrorMarker == <<"Error processing request: ">>

UserEntry(user_input) == [role |-> "user", message |-> user_input]

\* the response extraction of the processing block
normalize(response) ==
    IF response.isdict
    THEN IF response.has THEN response.content ELSE Str(NoContent)
    ELSE IF response.has THEN response.content ELSE Str(response.repr)

\* variant: the response is appended as str(response), without extraction
AssistantEntry_Raw(response) == [role |-> "assistant", message |-> Str(response.repr)]

AssistantEntry(response) == [role |-> "assistant", message |-> normalize(response)]

\* variant: the error entry carries the marker only
ErrorEntry_NoDescription(e) == [role |-> "assistant", message |-> Str(ErrorMarker)]

ErrorEntry(e) == [role |-> "assistant", message |-> Str(ErrorMarker \o e)]

\* variant: not user_input (no strip)
IsBlank_NoStrip(user_input) == user_input.v = <<>>

\* not user_input.strip()
IsBlank(user_input) == Strip(user_input.v) = <<>>

\* variant: the script goes on without an API key
MissingKey_Never(k) == FALSE

\* if not st.session_state.apikey
MissingKey(k) == k = <<>>

\* variant: the chat input is never disabled
InputDisabled_Never(l) == FALSE

\* chat_input(..., disabled=st.session_state.loading)
InputDisabled(l) == l

\* variant: if not st.session_state.processing
ShouldProcess_IgnoresLoading(l, p) == ~p

\* if st.session_state.loading and not st.session_state.processing
ShouldProcess(l, p) == l /\ ~p

\* st.session_state.conversation[-1]["message"]
LatestQuery(conv) == conv[Len(conv)].message

\* variants: the finally clause resets only one of the flags
FinallyFlags_KeepsLoading == [loading |-> TRUE, processing |-> FALSE]
FinallyFlags_KeepsProcessing == [loading |-> FALSE, processing |-> TRUE]

\* the finally clause
FinallyFlags == [loading |-> FALSE, processing |-> FALSE]

\* variant: the button leaves the entries in place
Cleared_KeepsEntries(conv) == conv

\* the Clear Conversation button
Cleared(conv) == <<>>

\* st.cache_resource: lookup by the arguments of the call
CacheKey(api_key, links) == <<api_key, links>>
\* variant: no memoization, the body runs on every call
CacheHit_Never(c, key) == FALSE
CacheHit(c, key) == key \in c
\* variant: the key is stored whether or not the body returned
CacheStore_Always(c, key, ok) == c \cup {key}
\* st.cache_resource: the value is stored when the body returns
CacheStore(c, key, ok) == IF ok THEN c \cup {key} ELSE c

NoKey == <<>>
NoQuery == PyNone
NoResponse == Response(FALSE, FALSE, PyNone, <<>>)

Event(kind) ==
    [kind |-> kind, chat |-> PyNone, key |-> NoKey, miss |-> FALSE,
     retry |-> FALSE, resp |-> NoResponse, err |-> <<>>]

TypeOK ==
    /\ apikey \in Credentials
    /\ link_count \in MinLinks..MaxLinks
    /\ loading \in BOOLEAN
    /\ processing \in BOOLEAN
    /\ pc \in {"idle", "rerun", "running"}
    /\ Len(conversation) <= 2 * MaxPasses

Init ==
    /\ apikey = <<>>
    /\ link_count = DefaultLinks
    /\ conversation = <<>>
    /\ loading = FALSE
    /\ processing = FALSE
    /\ cache = {}
    /\ environ = PyNone
    /\ pc = "idle"
    /\ latest_query = NoQuery
    /\ ev = Event("init")
    /\ runs = <<>>
    /\ accepted = <<>>
    /\ dropped = 0
    /\ builds = 0
    /\ seen = {}

(***************************************************************************)
(* One re-execution pass, up to its end or to the call of run.             *)
(***************************************************************************)
Pass(api_key, links, clear, user_input, build_ok) ==
    LET key == CacheKey(api_key, links)
        hit == CacheHit(cache, key)
        retry == ev.kind = "buildfail" /\ ev.key = key
        got == [Event("x") EXCEPT !.key = key, !.miss = ~hit, !.retry = retry]
        chat == IF InputDisabled(loading) THEN PyNone ELSE user_input
    IN
    /\ pc \in {"idle", "rerun"}
    \* configure_sidebar
    /\ apikey' = api_key
    /\ link_count' = links
    /\ IF clear
       THEN \* Clear Conversation: empty the transcript and rerun
            /\ conversation' = Cleared(conversation)
            /\ pc' = "rerun"
            /\ ev' = Event("clear")
            /\ UNCHANGED <<loading, processing, cache, environ, latest_query,
                           runs, accepted, dropped, builds, seen>>
       ELSE IF MissingKey(api_key)
       THEN \* API key validation: st.error, st.stop
            /\ pc' = "idle"
            /\ ev' = Event("nokey")
            /\ UNCHANGED <<conversation, loading, processing, cache, environ,
                           latest_query, runs, accepted, dropped, builds, seen>>
       ELSE IF ~hit /\ ~build_ok
       THEN \* create_research_agent raises: the script ends with the error
            /\ environ' = Str(api_key)
            /\ cache' = CacheStore(cache, key, FALSE)
            /\ pc' = "idle"
            /\ ev' = [got EXCEPT !.kind = "buildfail"]
            /\ UNCHANGED <<conversation, loading, processing, latest_query,
                           runs, accepted, dropped, builds, seen>>
       ELSE \* research_agent is bound
            /\ environ' = IF hit THEN environ ELSE Str(api_key)
            /\ cache' = IF hit THEN cache ELSE CacheStore(cache, key, TRUE)
            /\ builds' = IF hit THEN builds ELSE builds + 1
            /\ seen' = seen \cup {key}
            /\ IF Truthy(chat)
               THEN IF IsBlank(chat)
                    THEN \* st.warning, st.stop
                         /\ pc' = "idle"
                         /\ ev' = [got EXCEPT !.kind = "blank", !.chat = chat]
                         /\ UNCHANGED <<conversation, loading, processing,
                                        latest_query, runs, accepted, dropped>>
                    ELSE \* append the User entry, set loading, rerun
                         /\ conversation' = Append(conversation, UserEntry(chat))
                         /\ loading' = TRUE
                         /\ accepted' = Append(accepted, chat)
                         /\ pc' = "rerun"
                         /\ ev' = [got EXCEPT !.kind = "submit", !.chat = chat]
                         /\ UNCHANGED <<processing, latest_query, runs, dropped>>
               ELSE IF ShouldProcess(loading, processing)
               THEN IF conversation = <<>>
                    THEN \* conversation[-1] raises IndexError: except, finally
                         /\ conversation' = Append(conversation, ErrorEntry(IndexErrorText))
                         /\ loading' = FinallyFlags.loading
                         /\ processing' = FinallyFlags.processing
                         /\ dropped' = dropped + 1
                         /\ pc' = "rerun"
                         /\ ev' = [got EXCEPT !.kind = "emptyfail", !.chat = chat,
                                              !.err = IndexErrorText]
                         /\ UNCHANGED <<latest_query, runs, accepted>>
                    ELSE \* research_agent.run(latest_query) is called
                         /\ processing' = TRUE
                         /\ latest_query' = LatestQuery(conversation)
                         /\ runs' = Append(runs, LatestQuery(conversation))
                         /\ pc' = "running"
                         /\ ev' = [got EXCEPT !.kind = "process", !.chat = chat]
                         /\ UNCHANGED <<conversation, loading, accepted, dropped>>
               ELSE \* nothing to do: the script ends
                    /\ pc' = "idle"
                    /\ ev' = [got EXCEPT !.kind = "render", !.chat = chat]
                    /\ UNCHANGED <<conversation, loading, processing,
                                   latest_query, runs, accepted, dropped>>

(***************************************************************************)
(* research_agent.run returns: normalize, append, finally.                 *)
(***************************************************************************)
AgentReturns(response) ==
    /\ pc = "running"
    /\ conversation' = Append(conversation, AssistantEntry(response))
    /\ loading' = FinallyFlags.loading
    /\ processing' = FinallyFlags.processing
    /\ latest_query' = NoQuery
    /\ pc' = "rerun"
    /\ ev' = [Event("returned") EXCEPT !.resp = response]
    /\ UNCHANGED <<apikey, link_count, cache, environ, runs, accepted,
                   dropped, builds, seen>>

(***************************************************************************)
(* research_agent.run raises: except Exception, finally.                   *)
(***************************************************************************)
AgentRaises(e) ==
    /\ pc = "running"
    /\ conversation' = Append(conversation, ErrorEntry(e))
    /\ loading' = FinallyFlags.loading
    /\ processing' = FinallyFlags.processing
    /\ latest_query' = NoQuery
    /\ pc' = "rerun"
    /\ ev' = [Event("raised") EXCEPT !.err = e]
    /\ UNCHANGED <<apikey, link_count, cache, environ, runs, accepted,
                   dropped, builds, seen>>

\* The widget values of a pass.  A submission is offered only while fewer
\* than MaxPasses processing passes were made; values the pass cannot read
\* (the chat input when it is disabled or not reached, the outcome of a build
\* that does not happen) are not enumerated.
WithinBounds(api_key, links, clear, user_input, build_ok) ==
    /\ (Truthy(user_input) /\ Strip(user_input.v) # <<>>) =>
            Len(runs) + dropped < MaxPasses
    /\ (clear \/ MissingKey(api_key) \/ InputDisabled(loading)) => user_input = PyNone
    /\ (clear \/ MissingKey(api_key) \/ CacheHit(cache, CacheKey(api_key, links))) => build_ok
    /\ (~build_ok) => user_input = PyNone

\* a pass of a conversation: the user may have edited the API key, clicked
\* Clear Conversation or submitted a chat input; the link count is left alone
ConversationPass ==
    \E api_key \in Credentials, clear \in BOOLEAN,
       user_input \in ChatInputs, build_ok \in BOOLEAN :
        /\ WithinBounds(api_key, link_count, clear, user_input, build_ok)
        /\ Pass(api_key, link_count, clear, user_input, build_ok)

\* a pass after an edit of the settings (API key, link count), nothing else
SettingsPass ==
    \E api_key \in Credentials, links \in Limits, build_ok \in BOOLEAN :
        /\ WithinBounds(api_key, links, FALSE, PyNone, build_ok)
        /\ Pass(api_key, links, FALSE, PyNone, build_ok)

Next ==
    \/ ConversationPass
    \/ \E response \in Responses : AgentReturns(response)
    \/ \E e \in Errors : AgentRaises(e)

\* conversations under one link count
Spec == Init /\ [][Next]_vars

\* the agent call in flight returns or raises
AgentCompletes ==
    \/ \E response \in Responses : AgentReturns(response)
    \/ \E e \in Errors : AgentRaises(e)

\* passes keep being executed, and a blocking run call eventually completes
SpecFair == Spec /\ WF_vars(ConversationPass) /\ WF_vars(AgentCompletes)

\* conversations in which run may return a response of any shape
NextShapes ==
    \/ ConversationPass
    \/ \E response \in ResponseShapes : AgentReturns(response)
    \/ \E e \in Errors : AgentRaises(e)

SpecShapes == Init /\ [][NextShapes]_vars

\* settings edits only: the agent cache under every key
SpecCache == Init /\ [][SettingsPass]_vars

(***************************************************************************)
(* Lifecycle states and helpers of the properties.                         *)
(***************************************************************************)
Idle == ~loading /\ ~processing
Queued == loading /\ ~processing
Processing == loading /\ processing

\* the step is a re-execution pass (the other steps complete a run)
IsPass == pc # "running"

\* the pass reached the chat_input line
ReachedInput(e) == e.kind \in {"blank", "submit", "process", "emptyfail", "render"}

RECURSIVE IsSubSeq(_, _)
IsSubSeq(s, t) ==
    IF s = <<>> THEN TRUE
    ELSE IF t = <<>> THEN FALSE
    ELSE IF Head(s) = Head(t) THEN IsSubSeq(Tail(s), Tail(t))
    ELSE IsSubSeq(s, Tail(t))

NumUsers(conv) == Cardinality({i \in 1..Len(conv) : conv[i].role = "user"})

\* User entries that no Assistant entry answers
PendingUsers(conv) ==
    Cardinality({i \in 1..Len(conv) :
        /\ conv[i].role = "user"
        /\ (i = Len(conv) \/ conv[i + 1].role # "assistant")})

C3_Submit ==
    [][(IsPass /\ Idle /\ ReachedInput(ev') /\ ev'.chat.t = "str") =>
         IF Strip(ev'.chat.v) # <<>>
         THEN /\ conversation' = Append(conversation,
                                        [role |-> "user", message |-> ev'.chat])
              /\ loading' /\ ~processing'
         ELSE /\ conversation' = conversation
              /\ ~loading' /\ ~processing']_vars

C3_Witness ==
    /\ ev.kind = "submit"
    /\ Queued
    /\ Strip(ev.chat.v) # <<>>
    /\ conversation = << [role |-> "user", message |-> ev.chat] >>

(***************************************************************************)
(* C4: a submission is accepted only in Idle; while loading is true no     *)
(* User entry is appended; the transcript never holds more than one        *)
(* unanswered User entry.                                                  *)
(***************************************************************************)
C4_Gating ==
    [][/\ ev'.kind = "submit" => Idle
       /\ loading => NumUsers(conversation') <= NumUsers(conversation)
       /\ PendingUsers(conversation') <= 1]_vars

C4_Witness ==
    /\ ev.kind = "process"
    /\ Processing
    /\ Len(accepted) = 1
    /\ NumUsers(conversation) = 1
    /\ PendingUsers(conversation) = 1

(***************************************************************************)
(* C5: a pass that has set processing = true ends with loading = false and *)
(* processing = false, whether run returned, run raised or reading the     *)
(* latest query failed.                                                    *)
(***************************************************************************)
C5_EndsIdle ==
    [][(pc = "running" \/ ev'.kind \in {"returned", "raised", "emptyfail"}) =>
         (~loading' /\ ~processing' /\ pc' = "rerun")]_vars

C5_Witness == ev.kind = "returned" /\ ~ev.resp.isdict /\ Idle /\ pc = "rerun"

C9_FailureNotCached ==
    [][/\ ev'.kind = "buildfail" =>
            /\ ev'.key \notin cache'
            /\ cache' = cache
            /\ builds' = builds
            /\ pc' = "idle"
            /\ UNCHANGED <<conversation, loading, processing, runs>>
       /\ (ev.kind = "buildfail" /\ ev'.key = ev.key) => ev'.miss]_vars

C9_Witness ==
    /\ ev.retry
    /\ ev.miss
    /\ ev.kind # "buildfail"
    /\ ev.key \in cache

(***************************************************************************)
(* C10 as stated: right after clear the transcript is empty and the state  *)
(* is Idle (loading and processing false), whatever the state before.      *)
(***************************************************************************)
C10_ClearResets == ev.kind = "clear" => (conversation = <<>> /\ Idle)

\* the lifecycle state encoded by the two flags
LifecycleState(l, p) ==
    IF ~l /\ ~p THEN "Idle"
    ELSE IF l /\ ~p THEN "Queued"
    ELSE IF l /\ p THEN "Processing"
    ELSE "Invalid"

(***************************************************************************)
(* C11 as stated: the lifecycle state changes only along Idle -> Queued by *)
(* an accepted submit, Queued -> Processing by a pass that begins the      *)
(* invocation, and Processing -> Idle by the return or the failure of the  *)
(* agent call; no other change of state happens.                           *)
(***************************************************************************)
C11_Transitions ==
    [][LET from == LifecycleState(loading, processing)
           to == LifecycleState(loading', processing')
       IN  from # to =>
             \/ from = "Idle" /\ to = "Queued" /\ ev'.kind = "submit"
             \/ from = "Queued" /\ to = "Processing" /\ ev'.kind = "process"
             \/ from = "Processing" /\ to = "Idle" /\ pc = "running"
                  /\ ev'.kind \in {"returned", "raised"}]_vars

\* str(x) for x a str or None
PyStr(x) == IF x.t = "str" THEN x ELSE Str(<<"None">>)

\* a content that is "" or None
EmptyContent(x) == x.t # "str" \/ x.v = <<>>

(***************************************************************************)
(* C12 as stated: for every response shape the text appended for a         *)
(* returned response is a string: the content field of a mapping when it   *)
(* is non-empty, the literal "No content available." when the mapping's    *)
(* content is absent or empty, the string value of the content attribute   *)
(* of a non-mapping, and str(response) for anything else.                  *)
(***************************************************************************)
C12_Normalize ==
    ev.kind = "returned" =>
        LET r == ev.resp
            out == conversation[Len(conversation)].message
        IN  /\ out.t = "str"
            /\ (r.isdict /\ r.has /\ ~EmptyContent(r.content)) => out = r.content
            /\ (r.isdict /\ (~r.has \/ EmptyContent(r.content))) => out = Str(NoContent)
            /\ (~r.isdict /\ r.has) => out = PyStr(r.content)
            /\ (~r.isdict /\ ~r.has) => out = Str(r.repr)

(***************************************************************************)
(* C13 as stated: under fair scheduling of passes and eventual completion  *)
(* of the agent call, from every reachable state the lifecycle is          *)
(* eventually Idle again.                                                  *)
(***************************************************************************)
C13_Liveness == []<>Idle

(***************************************************************************)
(* C14: a pass made with an empty credential, or one whose agent build     *)
(* fails, accepts no submission, does not enter Processing, invokes no     *)
(* run, and leaves the lifecycle flags and the transcript as they were;    *)
(* only a clear, handled before the credential is looked at, empties the   *)
(* transcript.                                                             *)
(***************************************************************************)
C14_ConfigFailureBlocks ==
    [][(IsPass /\ (apikey' = NoKey \/ ev'.kind = "buildfail")) =>
          /\ UNCHANGED <<loading, processing, runs, accepted>>
          /\ pc' # "running"
          /\ \/ conversation' = conversation
             \/ ev'.kind = "clear" /\ conversation' = <<>>]_vars

\* a queued submission waits behind a pass that stopped for want of a key
C14_Witness ==
    /\ ev.kind = "nokey"
    /\ Queued
    /\ conversation # <<>>
    /\ runs = <<>>

C16_QueuedHasQuery ==
    /\ Queued =>
          /\ conversation # <<>>
          /\ accepted # <<>>
          /\ conversation[Len(conversation)] = UserEntry(accepted[Len(accepted)])
    /\ ev.kind # "emptyfail"

(***************************************************************************)
(* C17: in every reachable state processing = true implies loading = true; *)
(* the flags are never (loading, processing) = (false, true), also after   *)
(* a clear.                                                                *)
(***************************************************************************)
C17_ProcessingImpliesLoading == LifecycleState(loading, processing) # "Invalid"

\* the run call is in flight with both flags set
C17_Witness ==
    /\ pc = "running"
    /\ processing
    /\ loading
    /\ runs # <<>>

(***************************************************************************)
(* C18 as stated: the entries of the transcript alternate User, Assistant, *)
(* User, ... starting with a User entry; in every Idle state the           *)
(* transcript is empty or ends with an Assistant entry and has as many     *)
(* Assistant entries as User entries.                                      *)
(***************************************************************************)
C18_Alternation ==
    /\ \A i \in DOMAIN conversation :
          conversation[i].role = IF i % 2 = 1 THEN "user" ELSE "assistant"
    /\ Idle =>
          \/ conversation = <<>>
          \/ /\ conversation[Len(conversation)].role = "assistant"
             /\ 2 * NumUsers(conversation) = Len(conversation)

(***************************************************************************)
(* C19 as stated: whenever research_agent.run is invoked, the environment  *)
(* variable GOOGLE_API_KEY, written only inside a build of the agent,      *)
(* holds the API key of the configuration in force.                        *)
(***************************************************************************)
C19_EnvironMatchesKey == pc = "running" => environ = Str(apikey)

====
